---- MODULE Spec2Model ----
(***************************************************************************)
(* The windowed count-stabilization logic of DeepStream-Yolo:              *)
(*   deepstream_dual.py   two probes ("top", "side") on separate streaming *)
(*                        threads, one deque and one stats dict each, one  *)
(*                        global stats_lock, 95th-percentile estimator;    *)
(*   deepstream_count.py  one probe, one deque, Counter-mode estimator,    *)
(*                        single streaming thread, no lock.                *)
(* One run executes one of the two scripts (variable script).              *)
(***************************************************************************)
EXTENDS Integers, Sequences, FiniteSets, TLC

VARIABLES
    script,      \* which of the two scripts this run executes
    maxlen,      \* the deques' maxlen (BUFFER_SIZE of the run)
    buffer,      \* top_buffer, side_buffer, count_buffer: deque contents, oldest first
    stats,       \* top_stats, side_stats: the dicts {"current", "stabilized"}
    current_stabilized_count,  \* the global of deepstream_count.py
    stats_lock,  \* threading.Lock: "free" or the thread holding it
    pc,          \* position of each probe thread inside its per-frame loop body
    num_rects,   \* local of each probe: frame_meta.num_obj_meta of the frame in hand
    cur,         \* local of each dual probe: copy of stats["current"]
    stab,        \* local of each dual probe: copy of stats["stabilized"]
    fed,         \* per stream: the num_obj_meta values the framework has delivered, in order
    term,        \* per stream: the lines printed to the terminal, in order
    csv,         \* per stream: the rows of its CSV file, header first
    osd,         \* per stream: the display_text of the overlays built, in order
    call         \* a direct call of an estimator function: [fn, arg, ret]

vars == <<script, maxlen, buffer, stats, current_stabilized_count, stats_lock, pc,
          num_rects, cur, stab, fed, term, csv, osd, call>>

----------------------------------------------------------------------------
(* Bounds of the model *)

\* raw counts are drawn from 0..MaxCount
MaxCount == 1
\* frames the framework delivers to each stream in one run
MaxFrames == 3
\* the deques' maxlen ranges over 1..MaxWindow (the scripts use 900 and 300)
MaxWindow == 2

\* direct estimator calls: every window over Counts of length up to MaxCallLen ...
MaxCallLen == 4
\* ... and every two-level window (highs first, then lows) of length up to MaxLong
MaxLong == 42
\* the end-to-end scenario feeds BUFFER_SIZE threes, then up to MaxFives fives
MaxFives == 20

\* the configuration of deepstream_count.py, also the end-to-end scenario's
FPS == 30
WINDOW_SECONDS == 10
BUFFER_SIZE == FPS * WINDOW_SECONDS

Counts == 0..MaxCount

Threads == {"top", "side"}
Streams == {"top", "side", "count"}

----------------------------------------------------------------------------
(* collections.deque(maxlen=m).append(x): when full, the oldest item is dropped *)

\* mutant: a full deque refuses the new item instead of dropping the oldest
deque_append_keep_oldest(d, x, m) ==
    IF Len(d) >= m THEN d ELSE d \o <<x>>

\* mutant: a deque without maxlen, nothing is ever dropped
deque_append_unbounded(d, x, m) ==
    d \o <<x>>

deque_append(d, x, m) ==
    IF Len(d) >= m THEN SubSeq(d, Len(d) - m + 2, Len(d)) \o <<x>> ELSE d \o <<x>>

----------------------------------------------------------------------------
(* get_stabilized_count: the 95th-percentile estimator of deepstream_dual.py *)

\* sorted(buffer): a new ascending list, the argument is left alone
sorted(b) == SortSeq(b, LAMBDA x, y : x < y)

\* int(len(sorted_buffer) * 0.95): the double product truncated; it equals
\* floor(n * 19 / 20) for every n up to 100000 (checked against CPython floats)
\* mutant: the 90th percentile
percentile_index_90(n) == (n * 9) \div 10

percentile_index(n) == (n * 19) \div 20

\* mutant: the window indexed as it stands, without sorting
get_stabilized_count_unsorted(b) ==
    IF Len(b) = 0 THEN 0
    ELSE LET index0 == percentile_index(Len(b))
             index == IF index0 >= Len(b) THEN Len(b) - 1 ELSE index0
         IN  b[index + 1]

\* mutant: no value for an empty window
get_stabilized_count_empty(b) ==
    IF Len(b) = 0 THEN -1
    ELSE LET sorted_buffer == sorted(b)
             index0 == percentile_index(Len(sorted_buffer))
             index == IF index0 >= Len(sorted_buffer)
                      THEN Len(sorted_buffer) - 1 ELSE index0
         IN  sorted_buffer[index + 1]

get_stabilized_count(b) ==
    IF Len(b) = 0 THEN 0
    ELSE LET sorted_buffer == sorted(b)
             index0 == percentile_index(Len(sorted_buffer))
             index == IF index0 >= Len(sorted_buffer)
                      THEN Len(sorted_buffer) - 1 ELSE index0
         IN  sorted_buffer[index + 1]

----------------------------------------------------------------------------
(* Counter(count_buffer).most_common(1)[0][0]: the mode of deepstream_count.py *)

\* the keys of Counter(b): the distinct values in order of first occurrence
RECURSIVE counter_keys(_)
counter_keys(b) ==
    IF b = <<>> THEN <<>>
    ELSE LET front == counter_keys(SubSeq(b, 1, Len(b) - 1))
             x == b[Len(b)]
         IN  IF \E i \in DOMAIN front : front[i] = x THEN front ELSE front \o <<x>>

\* Counter(b)[v]
counter_count(b, v) == Cardinality({i \in DOMAIN b : b[i] = v})

\* mutant: a later item of equal count replaces the best one (>= for >)
RECURSIVE max_by_count_last(_, _, _)
max_by_count_last(keys, b, best) ==
    IF keys = <<>> THEN best
    ELSE max_by_count_last(Tail(keys), b,
                           IF counter_count(b, Head(keys)) >= counter_count(b, best)
                           THEN Head(keys) ELSE best)

\* mutant: the first key of the Counter, whatever its count
most_common_1_first_key(b) == Head(counter_keys(b))

\* max(items, key=count): the first item, in iteration order, of maximal count
RECURSIVE max_by_count(_, _, _)
max_by_count(keys, b, best) ==
    IF keys = <<>> THEN best
    ELSE max_by_count(Tail(keys), b,
                      IF counter_count(b, Head(keys)) > counter_count(b, best)
                      THEN Head(keys) ELSE best)

most_common_1(b) ==
    LET keys == counter_keys(b) IN max_by_count(Tail(keys), b, Head(keys))

\* if len(count_buffer) > 0: current_stabilized_count = counts.most_common(1)[0][0]
mode_update(b, prev) == IF Len(b) > 0 THEN most_common_1(b) ELSE prev

----------------------------------------------------------------------------
(* Output formats *)

CsvHeader == <<"Frame", "Current_Count", "Stabilized_Count">>

\* frame_meta.frame_num of the frame a probe has in hand: frames are numbered from 0
frame_num(s) == Len(fed[s]) - 1

\* mutant: stabilized starts without a value
ZeroStats_unset == [current |-> 0, stabilized |-> -1]

ZeroStats == [current |-> 0, stabilized |-> 0]
NoCall == [fn |-> "none", arg |-> <<>>, ret |-> 0]

----------------------------------------------------------------------------
(* Initial state: module level of the script that was started *)

Boot(sc, m) ==
    /\ script = sc
    /\ maxlen = m
    /\ buffer = [s \in Streams |-> <<>>]
    /\ stats = [t \in Threads |-> ZeroStats]
    /\ current_stabilized_count = 0
    /\ stats_lock = "free"
    /\ pc = [s \in Streams |-> "idle"]
    /\ num_rects = [s \in Streams |-> 0]
    /\ cur = [t \in Threads |-> 0]
    /\ stab = [t \in Threads |-> 0]
    /\ fed = [s \in Streams |-> <<>>]
    /\ term = [s \in Streams |-> <<>>]
    /\ csv = [t \in Threads |-> IF sc = "deepstream_dual" THEN <<CsvHeader>> ELSE <<>>]
    /\ osd = [s \in Streams |-> <<>>]

Scripts == {"deepstream_dual", "deepstream_count"}

Init ==
    /\ \E sc \in Scripts, m \in 1..MaxWindow : Boot(sc, m)
    /\ call = NoCall

----------------------------------------------------------------------------
(* deepstream_dual.py: top_infer_src_probe / side_infer_src_probe, one frame *)

\* mutants: the side probe left working on the top probe's deque / dict
buffer_of_top(t) == "top"
stats_of_top(t) == "top"

\* the deque and the dict a probe works on
buffer_of(t) == t
stats_of(t) == t

\* num_rects = frame_meta.num_obj_meta
FrameArrive(t, n) ==
    /\ script = "deepstream_dual"
    /\ pc[t] = "idle"
    /\ fed' = [fed EXCEPT ![t] = Append(@, n)]
    /\ num_rects' = [num_rects EXCEPT ![t] = n]
    /\ pc' = [pc EXCEPT ![t] = "acquire"]
    /\ UNCHANGED <<script, maxlen, buffer, stats, current_stabilized_count, stats_lock,
                   cur, stab, term, csv, osd, call>>

\* mutant: the critical section entered without taking the lock
Acquire_unlocked(t) ==
    /\ pc[t] = "acquire"
    /\ pc' = [pc EXCEPT ![t] = "append"]
    /\ UNCHANGED <<script, maxlen, buffer, stats, current_stabilized_count, stats_lock,
                   num_rects, cur, stab, fed, term, csv, osd, call>>

\* with stats_lock:
Acquire(t) ==
    /\ pc[t] = "acquire"
    /\ stats_lock = "free"
    /\ stats_lock' = t
    /\ pc' = [pc EXCEPT ![t] = "append"]
    /\ UNCHANGED <<script, maxlen, buffer, stats, current_stabilized_count,
                   num_rects, cur, stab, fed, term, csv, osd, call>>

\* top_buffer.append(num_rects)
AppendBuffer(t) ==
    /\ pc[t] = "append"
    /\ buffer' = [buffer EXCEPT ![buffer_of(t)] = deque_append(@, num_rects[t], maxlen)]
    /\ pc' = [pc EXCEPT ![t] = "set_current"]
    /\ UNCHANGED <<script, maxlen, stats, current_stabilized_count, stats_lock,
                   num_rects, cur, stab, fed, term, csv, osd, call>>

\* top_stats["current"] = num_rects
SetCurrent(t) ==
    /\ pc[t] = "set_current"
    /\ stats' = [stats EXCEPT ![stats_of(t)].current = num_rects[t]]
    /\ pc' = [pc EXCEPT ![t] = "set_stabilized"]
    /\ UNCHANGED <<script, maxlen, buffer, current_stabilized_count, stats_lock,
                   num_rects, cur, stab, fed, term, csv, osd, call>>

\* mutant: the deque itself sorted while the estimate is taken
SetStabilized_sort_in_place(t) ==
    /\ pc[t] = "set_stabilized"
    /\ stats' = [stats EXCEPT ![stats_of(t)].stabilized =
                                  get_stabilized_count(buffer[buffer_of(t)])]
    /\ buffer' = [buffer EXCEPT ![buffer_of(t)] = sorted(@)]
    /\ pc' = [pc EXCEPT ![t] = "read_cur"]
    /\ UNCHANGED <<script, maxlen, current_stabilized_count, stats_lock,
                   num_rects, cur, stab, fed, term, csv, osd, call>>

\* mutant: the estimate never comes down (the larger of the old and the new)
SetStabilized_peak_hold(t) ==
    /\ pc[t] = "set_stabilized"
    /\ LET new == get_stabilized_count(buffer[buffer_of(t)])
           old == stats[stats_of(t)].stabilized
       IN  stats' = [stats EXCEPT ![stats_of(t)].stabilized = IF old > new THEN old ELSE new]
    /\ pc' = [pc EXCEPT ![t] = "read_cur"]
    /\ UNCHANGED <<script, maxlen, buffer, current_stabilized_count, stats_lock,
                   num_rects, cur, stab, fed, term, csv, osd, call>>

\* top_stats["stabilized"] = get_stabilized_count(top_buffer)
SetStabilized(t) ==
    /\ pc[t] = "set_stabilized"
    /\ stats' = [stats EXCEPT ![stats_of(t)].stabilized =
                                  get_stabilized_count(buffer[buffer_of(t)])]
    /\ pc' = [pc EXCEPT ![t] = "read_cur"]
    /\ UNCHANGED <<script, maxlen, buffer, current_stabilized_count, stats_lock,
                   num_rects, cur, stab, fed, term, csv, osd, call>>

\* cur = top_stats["current"]
ReadCur(t) ==
    /\ pc[t] = "read_cur"
    /\ cur' = [cur EXCEPT ![t] = stats[stats_of(t)].current]
    /\ pc' = [pc EXCEPT ![t] = "read_stab"]
    /\ UNCHANGED <<script, maxlen, buffer, stats, current_stabilized_count, stats_lock,
                   num_rects, stab, fed, term, csv, osd, call>>

\* mutant: the copy-out of stabilized reads the key "current"
ReadStab_wrong_key(t) ==
    /\ pc[t] = "read_stab"
    /\ stab' = [stab EXCEPT ![t] = stats[stats_of(t)].current]
    /\ pc' = [pc EXCEPT ![t] = "release"]
    /\ UNCHANGED <<script, maxlen, buffer, stats, current_stabilized_count, stats_lock,
                   num_rects, cur, fed, term, csv, osd, call>>

\* stab = top_stats["stabilized"]
ReadStab(t) ==
    /\ pc[t] = "read_stab"
    /\ stab' = [stab EXCEPT ![t] = stats[stats_of(t)].stabilized]
    /\ pc' = [pc EXCEPT ![t] = "release"]
    /\ UNCHANGED <<script, maxlen, buffer, stats, current_stabilized_count, stats_lock,
                   num_rects, cur, fed, term, csv, osd, call>>

\* mutant: the observer work left inside the with block, the lock still held
Release_keep(t) ==
    /\ pc[t] = "release"
    /\ pc' = [pc EXCEPT ![t] = "print"]
    /\ UNCHANGED <<script, maxlen, buffer, stats, current_stabilized_count, stats_lock,
                   num_rects, cur, stab, fed, term, csv, osd, call>>

\* leaving the with block releases the lock
Release(t) ==
    /\ pc[t] = "release"
    /\ stats_lock' = "free"
    /\ pc' = [pc EXCEPT ![t] = "print"]
    /\ UNCHANGED <<script, maxlen, buffer, stats, current_stabilized_count,
                   num_rects, cur, stab, fed, term, csv, osd, call>>

\* print(f"[TOP] Frame=... | Current={cur} | Stabilized(95%)={stab}")
PrintLine(t) ==
    /\ pc[t] = "print"
    /\ term' = [term EXCEPT ![t] = Append(@, <<frame_num(t), cur[t], stab[t]>>)]
    /\ pc' = [pc EXCEPT ![t] = "csv"]
    /\ UNCHANGED <<script, maxlen, buffer, stats, current_stabilized_count, stats_lock,
                   num_rects, cur, stab, fed, csv, osd, call>>

\* mutant: the file reopened with 'w' and its header written again on every frame
WriteCsv_rewrite(t) ==
    /\ pc[t] = "csv"
    /\ csv' = [csv EXCEPT ![t] = <<CsvHeader, <<frame_num(t), cur[t], stab[t]>>>>]
    /\ pc' = [pc EXCEPT ![t] = "overlay"]
    /\ UNCHANGED <<script, maxlen, buffer, stats, current_stabilized_count, stats_lock,
                   num_rects, cur, stab, fed, term, osd, call>>

\* with open(TOP_CSV_FILE, 'a') as f: writer.writerow([frame_num, cur, stab])
WriteCsv(t) ==
    /\ pc[t] = "csv"
    /\ csv' = [csv EXCEPT ![t] = Append(@, <<frame_num(t), cur[t], stab[t]>>)]
    /\ pc' = [pc EXCEPT ![t] = "overlay"]
    /\ UNCHANGED <<script, maxlen, buffer, stats, current_stabilized_count, stats_lock,
                   num_rects, cur, stab, fed, term, osd, call>>

\* params.display_text = f"TOP VIEW\nCurrent: {cur}\nStabilized: {stab}"; next frame
Overlay(t) ==
    /\ pc[t] = "overlay"
    /\ osd' = [osd EXCEPT ![t] = Append(@, <<cur[t], stab[t]>>)]
    /\ pc' = [pc EXCEPT ![t] = "idle"]
    /\ UNCHANGED <<script, maxlen, buffer, stats, current_stabilized_count, stats_lock,
                   num_rects, cur, stab, fed, term, csv, call>>

----------------------------------------------------------------------------
(* deepstream_count.py: osd_sink_pad_buffer_probe, one frame (single thread) *)

CountProbe(n) ==
    /\ script = "deepstream_count"
    /\ LET b == deque_append(buffer["count"], n, maxlen)
           m == mode_update(b, current_stabilized_count)
           f == Len(fed["count"])
       IN  /\ buffer' = [buffer EXCEPT !["count"] = b]
           /\ current_stabilized_count' = m
           /\ term' = [term EXCEPT !["count"] = Append(@, <<f, n, m>>)]
           /\ osd' = [osd EXCEPT !["count"] = Append(@, <<n, m>>)]
    /\ fed' = [fed EXCEPT !["count"] = Append(@, n)]
    /\ num_rects' = [num_rects EXCEPT !["count"] = n]
    /\ UNCHANGED <<script, maxlen, stats, stats_lock, pc, cur, stab, csv, call>>

----------------------------------------------------------------------------

ProbeStep(t) ==
    \/ Acquire(t)
    \/ AppendBuffer(t)
    \/ SetCurrent(t)
    \/ SetStabilized(t)
    \/ ReadCur(t)
    \/ ReadStab(t)
    \/ Release(t)
    \/ PrintLine(t)
    \/ WriteCsv(t)
    \/ Overlay(t)

Next ==
    \/ \E t \in Threads, n \in Counts : Len(fed[t]) < MaxFrames /\ FrameArrive(t, n)
    \/ \E t \in Threads : ProbeStep(t)
    \/ \E n \in Counts : Len(fed["count"]) < MaxFrames /\ CountProbe(n)

Spec == Init /\ [][Next]_vars

----------------------------------------------------------------------------
(* The estimators called directly on a given window *)

RECURSIVE SeqsUpTo(_, _)
SeqsUpTo(S, n) ==
    IF n = 0 THEN {<<>>}
    ELSE LET shorter == SeqsUpTo(S, n - 1)
         IN  shorter \cup {Append(w, x) : w \in shorter, x \in S}

\* k copies of hi followed by n - k copies of lo
TwoLevel(n, k, hi, lo) == [i \in 1..n |-> IF i <= k THEN hi ELSE lo]

\* the windows the specification's tests name
ExampleWindows ==
    { <<2, 2, 3, 3>>, <<2, 2, 3, 3, 3, 1>>, <<4>>, TwoLevel(20, 2, 7, 5),
      <<7>> \o TwoLevel(19, 18, 5, 7) }

CallWindows ==
    SeqsUpTo(Counts, MaxCallLen)
      \cup {TwoLevel(n, k, 1, 0) : n \in 1..MaxLong, k \in 0..MaxLong}
      \cup ExampleWindows

InitCall ==
    /\ \E sc \in Scripts : Boot(sc, BUFFER_SIZE)
    /\ call \in {[fn |-> "none", arg |-> w, ret |-> 0] : w \in CallWindows}

\* get_stabilized_count(window)
CallPercentile ==
    /\ script = "deepstream_dual"
    /\ call.fn = "none"
    /\ call' = [call EXCEPT !.fn = "get_stabilized_count",
                            !.ret = get_stabilized_count(call.arg)]
    /\ UNCHANGED <<script, maxlen, buffer, stats, current_stabilized_count, stats_lock,
                   pc, num_rects, cur, stab, fed, term, csv, osd>>

\* the mode statements of the count probe run on window
CallMode ==
    /\ script = "deepstream_count"
    /\ call.fn = "none"
    /\ call' = [call EXCEPT !.fn = "most_common",
                            !.ret = mode_update(call.arg, current_stabilized_count)]
    /\ UNCHANGED <<script, maxlen, buffer, stats, current_stabilized_count, stats_lock,
                   pc, num_rects, cur, stab, fed, term, csv, osd>>

NextCall == CallPercentile \/ CallMode

SpecCall == InitCall /\ [][NextCall]_vars

----------------------------------------------------------------------------
(* End-to-end scenario: the dual script's "top" probe with a window of     *)
(* BUFFER_SIZE (300), fed BUFFER_SIZE threes and then fives                *)

ScenarioCount(k) == IF k < BUFFER_SIZE THEN 3 ELSE 5

InitScenario ==
    /\ Boot("deepstream_dual", BUFFER_SIZE)
    /\ call = NoCall

NextScenario ==
    \/ /\ Len(fed["top"]) < BUFFER_SIZE + MaxFives
       /\ FrameArrive("top", ScenarioCount(Len(fed["top"])))
    \/ ProbeStep("top")

SpecScenario == InitScenario /\ [][NextScenario]_vars

----------------------------------------------------------------------------
(* Vocabulary of the properties *)

Min(a, b) == IF a <= b THEN a ELSE b

\* the last k items of w
LastN(w, k) == SubSeq(w, Len(w) - k + 1, Len(w))

\* how often v occurs in w
Occurrences(w, v) == Cardinality({i \in DOMAIN w : w[i] = v})

\* the raw counts already appended to the window of s: all the delivered ones,
\* but for a dual probe that has a frame in hand and has not reached its append
Appended(s) ==
    IF s \in Threads /\ pc[s] \in {"acquire", "append"}
    THEN SubSeq(fed[s], 1, Len(fed[s]) - 1)
    ELSE fed[s]

\* thread t is inside the with stats_lock block
InCritical(t) == pc[t] \in {"append", "set_current", "set_stabilized",
                            "read_cur", "read_stab", "release"}

----------------------------------------------------------------------------
\* C1: every window holds at most maxlen values, and exactly the last
\* min(N, maxlen) of the N raw counts appended to it so far, in arrival order.
C1_WindowHoldsLastAppended ==
    \A s \in Streams :
        LET a == Appended(s)
        IN  /\ Len(buffer[s]) <= maxlen
            /\ buffer[s] = LastN(a, Min(Len(a), maxlen))

\* more values than maxlen were appended and the oldest one was evicted
C1_Witness ==
    /\ Len(Appended("top")) > maxlen
    /\ Len(buffer["top"]) = maxlen
    /\ buffer["top"][1] # Appended("top")[1]
    /\ pc["top"] = "set_current"

\* C2: whenever a dual probe thread does not hold stats_lock (it is outside its
\* critical section, so another thread can take the lock and look), its stream's
\* published current is the newest value of the window and its stabilized is the
\* estimator's value for that same window (both 0 while the window is empty); in
\* the count script the stabilized global is the mode of the window.
C2_PublishedConsistent ==
    /\ \A t \in Threads :
          stats_lock # t =>
             IF buffer[t] = <<>>
             THEN stats[t].current = 0 /\ stats[t].stabilized = 0
             ELSE /\ stats[t].current = buffer[t][Len(buffer[t])]
                  /\ stats[t].stabilized = get_stabilized_count(buffer[t])
    /\ buffer["count"] # <<>> =>
          /\ current_stabilized_count = most_common_1(buffer["count"])
          /\ osd["count"][Len(osd["count"])] =
                <<buffer["count"][Len(buffer["count"])], current_stabilized_count>>

\* top is published with current and stabilized differing, while side is mid-update
C2_Witness ==
    /\ stats_lock = "side"
    /\ Len(buffer["top"]) = 2
    /\ stats["top"].current # stats["top"].stabilized
    /\ pc["side"] = "set_stabilized"
    /\ stats["side"].stabilized # get_stabilized_count(buffer["side"])

----------------------------------------------------------------------------
(* Order statistics and modes, stated without sorting or scanning *)

\* v stands at 0-based position i of w sorted ascending
AtSortedPosition(w, v, i) ==
    /\ \E j \in DOMAIN w : w[j] = v
    /\ Cardinality({j \in DOMAIN w : w[j] < v}) <= i
    /\ i < Cardinality({j \in DOMAIN w : w[j] <= v})

\* the values of w of maximal frequency
Modes(w) ==
    {w[i] : i \in {j \in DOMAIN w :
                     \A k \in DOMAIN w : Occurrences(w, w[k]) <= Occurrences(w, w[j])}}

\* 1-based position of the first occurrence of v in w
FirstPosition(w, v) == CHOOSE i \in DOMAIN w : w[i] = v /\ \A j \in 1..(i - 1) : w[j] # v

\* 1-based position at which v's running tally reaches n while w is scanned
ReachPosition(w, v, n) ==
    CHOOSE i \in DOMAIN w : w[i] = v /\ Occurrences(SubSeq(w, 1, i), v) = n

\* floor(n * 0.95), the index the specification writes
SpecIndex(n) == (n * 95) \div 100

\* C4: on a non-empty window of length L the percentile strategy returns the
\* element at position min(floor(L * 0.95), L - 1) of the window sorted ascending;
\* that position is within 0..L-1; a window of length 1 returns its only element;
\* 18 fives and 2 sevens return 7.
C4_PercentilePosition ==
    call.fn = "get_stabilized_count" /\ call.arg # <<>> =>
        LET L == Len(call.arg)
            i == Min(SpecIndex(L), L - 1)
        IN  /\ i \in 0..(L - 1)
            /\ AtSortedPosition(call.arg, call.ret, i)
            /\ L = 1 => call.ret = call.arg[1]
            /\ (L = 20 /\ Occurrences(call.arg, 5) = 18 /\ Occurrences(call.arg, 7) = 2)
                  => call.ret = 7

\* the estimator has run on a window in which the position is not the last one and
\* the last element is larger than the one returned
C4_Witness ==
    /\ call.fn = "get_stabilized_count"
    /\ Len(call.arg) = 40
    /\ Occurrences(call.arg, 1) = 1
    /\ call.arg[1] = 1
    /\ call.ret = 0

\* C5 as stated: among the values of maximal frequency the mode strategy returns
\* the one whose tally reaches that frequency first in insertion order.
C5_FirstToReachMaximum ==
    call.fn = "most_common" /\ call.arg # <<>> =>
        LET w == call.arg
            n == Occurrences(w, call.ret)
        IN  /\ call.ret \in Modes(w)
            /\ \A v \in Modes(w) : ReachPosition(w, call.ret, n) <= ReachPosition(w, v, n)

\* C5 amended: among the values of maximal frequency the mode strategy returns the
\* one that occurs first in the window (insertion order); <<2,2,3,3>> gives 2.
C5_FirstSeenAmongModes ==
    call.fn = "most_common" /\ call.arg # <<>> =>
        LET w == call.arg
        IN  /\ call.ret \in Modes(w)
            /\ \A v \in Modes(w) : FirstPosition(w, call.ret) <= FirstPosition(w, v)
            /\ w = <<2, 2, 3, 3>> => call.ret = 2

\* a tie in which the first value seen is not the first to reach the maximum
C5_Witness ==
    /\ call.fn = "most_common"
    /\ call.arg = <<1, 0, 0, 1>>
    /\ call.ret = 1

\* C6: on a non-empty window the mode strategy returns a value of the window that
\* occurs at least as often as every other value; <<2,2,3,3,3,1>> gives 3.
C6_ModeIsMostFrequent ==
    call.fn = "most_common" /\ call.arg # <<>> =>
        /\ \E i \in DOMAIN call.arg : call.arg[i] = call.ret
        /\ \A i \in DOMAIN call.arg :
              Occurrences(call.arg, call.arg[i]) <= Occurrences(call.arg, call.ret)
        /\ call.arg = <<2, 2, 3, 3, 3, 1>> => call.ret = 3

\* the mode was computed for the example, where it is neither first nor last
C6_Witness ==
    /\ call.fn = "most_common"
    /\ call.arg = <<2, 2, 3, 3, 3, 1>>
    /\ call.ret = 3

----------------------------------------------------------------------------
\* C7: both strategies yield 0 for an empty window: wherever a stream's window is
\* empty its stabilized value is 0, and the estimator run on that empty window
\* returns 0.
C7_EmptyWindowIsZero ==
    /\ \A t \in Threads :
          buffer[t] = <<>> =>
              /\ stats[t].stabilized = 0
              /\ get_stabilized_count(buffer[t]) = 0
    /\ buffer["count"] = <<>> =>
          /\ current_stabilized_count = 0
          /\ mode_update(buffer["count"], current_stabilized_count) = 0

\* the top window is still empty after the side stream has a non-zero stabilized
C7_Witness ==
    /\ buffer["top"] = <<>>
    /\ buffer["side"] # <<>>
    /\ stats["side"].stabilized > 0
    /\ stats["top"].stabilized = 0

\* C8: from the moment an update of a stream has copied out its snapshot (cur,
\* stab) until the next update of that stream enters its critical section, the
\* stream's published values equal that snapshot, whatever the other stream does.
C8_SnapshotMatchesPublished ==
    \A t \in Threads :
        (fed[t] # <<>> /\ pc[t] \in {"release", "print", "csv", "overlay", "idle"}) =>
            /\ stats[t].current = cur[t]
            /\ stats[t].stabilized = stab[t]

\* top has returned its snapshot and side has since written different values
C8_Witness ==
    /\ pc["top"] = "print"
    /\ pc["side"] = "read_cur"
    /\ stats["side"].current # cur["top"]
    /\ stats["side"].stabilized # stab["top"]
    /\ stats["top"].current = cur["top"]

----------------------------------------------------------------------------
(* The end-to-end scenario *)

\* the fives the top window holds
FivesInWindow == Occurrences(buffer["top"], 5)

\* the top window is full and published
ScenarioPublished == Len(buffer["top"]) = BUFFER_SIZE /\ ~InCritical("top")

\* C10 as stated: after the 300 threes stabilized is 3, and it is still 3 while at
\* most 15 fives have been appended.
C10_StillThreeUpTo15Fives ==
    (ScenarioPublished /\ FivesInWindow <= 15) => stats["top"].stabilized = 3

\* C10 amended: after the 300 threes stabilized is 3; it is 3 while at most 14
\* fives have been appended (so after each of the first 10), and 5 from the 15th
\* five on.
C10_FlipsAtFifteenthFive ==
    ScenarioPublished =>
        /\ Len(buffer["top"]) = 300
        /\ FivesInWindow = Len(Appended("top")) - 300
        /\ FivesInWindow <= 14 => stats["top"].stabilized = 3
        /\ FivesInWindow >= 15 => stats["top"].stabilized = 5

\* fifteen fives are in the window and the stabilized value has flipped
C10_Witness ==
    /\ ScenarioPublished
    /\ FivesInWindow = 15
    /\ stats["top"].stabilized = 5
    /\ stats["top"].current = 5

----------------------------------------------------------------------------
(* Both scripts fed whatever integer the frame meta carries, negatives included *)

RawInputs == (0 - 1)..MaxCount

InitRaw ==
    /\ \E sc \in Scripts : Boot(sc, MaxWindow)
    /\ call = NoCall

NextRaw ==
    \/ \E t \in Threads, n \in RawInputs : Len(fed[t]) < MaxFrames /\ FrameArrive(t, n)
    \/ \E t \in Threads : ProbeStep(t)
    \/ \E n \in RawInputs : Len(fed["count"]) < MaxFrames /\ CountProbe(n)

SpecRaw == InitRaw /\ [][NextRaw]_vars

\* C11: a negative raw count is rejected before it reaches the per-stream state:
\* no window ever holds one, and no stream's current or stabilized ever is one.
C11_NegativeCountRejected ==
    /\ \A s \in Streams : \A i \in DOMAIN buffer[s] : buffer[s][i] >= 0
    /\ \A t \in Threads : stats[t].current >= 0 /\ stats[t].stabilized >= 0
    /\ current_stabilized_count >= 0

----------------------------------------------------------------------------
\* the observer positions of a probe: terminal line, CSV row, overlay text
Observing(t) == pc[t] \in {"print", "csv", "overlay"}

\* C12: a probe holds stats_lock exactly while it is between its acquire and its
\* release (append, recompute, copy-out); a probe that is printing, writing its
\* CSV row or building its overlay text does not hold the lock.
C12_ObserversOutsideLock ==
    \A t \in Threads :
        /\ Observing(t) => stats_lock # t
        /\ stats_lock = t <=> InCritical(t)

\* top writes its CSV row while side is inside the locked section
C12_Witness ==
    /\ pc["top"] = "csv"
    /\ stats_lock = "side"
    /\ pc["side"] = "set_stabilized"

\* C13: at most one probe at a time is inside the append + recompute + copy-out
\* section, and the one inside holds stats_lock.
C13_MutualExclusion ==
    \A t \in Threads : \A u \in Threads :
        (InCritical(t) /\ InCritical(u)) => (t = u /\ stats_lock = t)

\* side has a frame in hand and waits for the lock that top holds mid-update
C13_Witness ==
    /\ pc["side"] = "acquire"
    /\ pc["top"] = "set_current"
    /\ stats_lock = "top"
    /\ buffer["side"] # <<>>

----------------------------------------------------------------------------
(* The dual script with only the side probe's own steps scheduled fairly: the  *)
(* top probe may stop anywhere, for ever                                       *)

InitSideFair ==
    /\ Boot("deepstream_dual", MaxWindow)
    /\ call = NoCall

NextSideFair ==
    \/ \E t \in Threads, n \in {0, MaxCount} :
          Len(fed[t]) < MaxFrames /\ FrameArrive(t, n)
    \/ \E t \in Threads : ProbeStep(t)

SpecSideFair ==
    InitSideFair /\ [][NextSideFair]_vars /\ WF_vars(ProbeStep("side"))

\* C14: if the top probe stays in its observer work for ever from some point on,
\* an update the side probe has started (frame in hand, waiting for the lock)
\* still gets the lock and completes (reaches its own observer work).
C14_UpdateCompletesDespiteStalledObserver ==
    (<>[]Observing("top")) => ((pc["side"] = "acquire") ~> (pc["side"] = "print"))

\* top sits in its first CSV write while side has completed all its updates
C14_Witness ==
    /\ pc["top"] = "csv"
    /\ Len(fed["top"]) = 1
    /\ Len(fed["side"]) = MaxFrames
    /\ pc["side"] = "idle"

----------------------------------------------------------------------------
\* the window of stream s as it stood right after its k-th append
WindowAfter(s, k) == LastN(SubSeq(fed[s], 1, k), Min(k, maxlen))

\* the largest value of a non-empty window: what the 95th percentile is for a
\* window shorter than 20
Largest(w) == CHOOSE v \in {w[i] : i \in DOMAIN w} : \A i \in DOMAIN w : w[i] <= v

\* C15: for every frame a dual probe has processed, its terminal line, its CSV row
\* and its overlay carry the same (current, stabilized) pair: the frame's own raw
\* count and the estimate of the window as that frame's update left it.
C15_ObserversCarryOwnSnapshot ==
    \A t \in Threads :
        /\ \A k \in DOMAIN term[t] :
              /\ term[t][k][1] = k - 1
              /\ term[t][k][2] = fed[t][k]
              /\ maxlen < 20 => term[t][k][3] = Largest(WindowAfter(t, k))
        /\ \A k \in 1..(Len(csv[t]) - 1) : csv[t][k + 1] = term[t][k]
        /\ \A k \in DOMAIN osd[t] : osd[t][k] = <<term[t][k][2], term[t][k][3]>>

\* top has put out a frame whose stabilized differs from its current, after side
\* has updated its stream with other values
C15_Witness ==
    /\ pc["top"] = "idle"
    /\ Len(osd["top"]) = 2
    /\ osd["top"][2] = <<0, 1>>
    /\ csv["top"][3] = <<1, 0, 1>>
    /\ Len(osd["side"]) = 1
    /\ osd["side"][1] = <<1, 1>>
    /\ pc["side"] = "set_stabilized"

\* C16: computing the stabilized value leaves the window as it was: the step of a
\* dual probe that runs get_stabilized_count changes no deque, and the count
\* probe's window after a frame is the old one with the new count appended (the
\* oldest dropped when full), whatever the tally did.
C16_EstimatorLeavesWindow ==
    [][/\ \A t \in Threads :
            (pc[t] = "set_stabilized" /\ pc'[t] = "read_cur") => buffer' = buffer
       /\ fed'["count"] # fed["count"] =>
            buffer'["count"] =
                LastN(buffer["count"] \o <<num_rects'["count"]>>,
                      Min(Len(buffer["count"]) + 1, maxlen))]_vars

\* the estimator has run on a window that is not in ascending order
C16_Witness ==
    /\ pc["top"] = "read_cur"
    /\ buffer["top"] = <<1, 0>>
    /\ stats["top"].stabilized = 1

\* C17: a step of one dual probe leaves the other stream's window, current and
\* stabilized as they were.
C17_OtherStreamUntouched ==
    [][\A t \in Threads :
          pc'[t] # pc[t] =>
              \A u \in Threads \ {t} : buffer'[u] = buffer[u] /\ stats'[u] = stats[u]]_vars

\* the two streams hold different windows and statistics, side being mid-update
C17_Witness ==
    /\ buffer["top"] = <<1, 1>>
    /\ stats["top"] = [current |-> 1, stabilized |-> 1]
    /\ buffer["side"] = <<0, 0>>
    /\ stats["side"] = [current |-> 0, stabilized |-> 0]
    /\ pc["side"] = "read_stab"
    /\ pc["top"] = "overlay"

----------------------------------------------------------------------------
\* the number of frames of dual probe t whose CSV row has been written
RowsWritten(t) ==
    IF pc[t] \in {"idle", "overlay"} THEN Len(fed[t]) ELSE Len(fed[t]) - 1

\* the file of t is the header followed by one record per frame written, the
\* k-th record being that of the k-th frame delivered to t
CsvWellFormed(t) ==
    /\ Len(csv[t]) = RowsWritten(t) + 1
    /\ csv[t][1] = CsvHeader
    /\ \A k \in 1..RowsWritten(t) :
          /\ Len(csv[t][k + 1]) = Len(CsvHeader)
          /\ csv[t][k + 1][1] = k - 1
          /\ csv[t][k + 1][2] = fed[t][k]

\* C18: each stream's CSV file starts with the header, written once before any
\* record, then holds exactly one record per processed frame in the order the
\* frames were processed; a step only ever appends, it never rewrites what is there.
C18_CsvHeaderThenOneRowPerFrame ==
    /\ [](script = "deepstream_dual" => \A t \in Threads : CsvWellFormed(t))
    /\ [][\A t \in Threads :
             /\ Len(csv'[t]) >= Len(csv[t])
             /\ Len(csv'[t]) <= Len(csv[t]) + 1
             /\ SubSeq(csv'[t], 1, Len(csv[t])) = csv[t]]_vars

\* top has written three records and side one, top being past its third write
C18_Witness ==
    /\ Len(csv["top"]) = 4
    /\ pc["top"] = "overlay"
    /\ csv["top"][3][2] # csv["top"][4][2]
    /\ Len(csv["side"]) = 2
    /\ pc["side"] = "print"

\* the values held by window w
Values(w) == {w[i] : i \in DOMAIN w}

\* C19: whenever a stream's window is non-empty and no update of it is in progress,
\* its stabilized value is one of the raw counts currently in the window.
C19_StabilizedIsWindowMember ==
    /\ \A t \in Threads :
          (stats_lock # t /\ buffer[t] # <<>>) => stats[t].stabilized \in Values(buffer[t])
    /\ buffer["count"] # <<>> => current_stabilized_count \in Values(buffer["count"])

\* the window has slid past the only 1 it ever held
C19_Witness ==
    /\ maxlen = 1
    /\ fed["top"] = <<1, 0>>
    /\ buffer["top"] = <<0>>
    /\ pc["top"] = "idle"
    /\ stats["top"].stabilized = 0

\* the last maxlen raw counts appended to the window of s are all c
ConstantRun(s, c) ==
    /\ Len(Appended(s)) >= maxlen
    /\ \A i \in DOMAIN Appended(s) : i > Len(Appended(s)) - maxlen => Appended(s)[i] = c

\* C20: once the last capacity updates of a stream all carried the same raw count
\* c, its stabilized value is c, under the percentile and under the mode strategy.
C20_ConstantInputConverges ==
    \A c \in Counts :
        /\ \A t \in Threads :
              (stats_lock # t /\ ConstantRun(t, c)) => stats[t].stabilized = c
        /\ ConstantRun("count", c) => current_stabilized_count = c

\* a higher count was seen first, then a window's worth of zeros
C20_Witness ==
    /\ maxlen = 2
    /\ fed["top"] = <<1, 0, 0>>
    /\ pc["top"] = "idle"
    /\ stats["top"].stabilized = 0

====
